---- MODULE Spec2Model ----
(* Model of archeology/make_table.py: fill_db_tables and process_one_file.    *)
(* Text is a sequence of Unicode code points, as a Python str is; Text writes *)
(* ASCII text by its characters.  The regular expressions of the module are   *)
(* sequences of quantified character classes, matched greedily with           *)
(* backtracking as Python's re does; shlex is the non-posix tokenizer.        *)
(* The five tables are sequences of rows; a row's integer key is its index    *)
(* (the store assigns increasing keys and enforces no uniqueness).            *)
EXTENDS Integers, Sequences, FiniteSets, TLC

(* ------------------------------------------------------------------------ *)
(* Characters                                                               *)
(* ------------------------------------------------------------------------ *)

\* the printable ASCII characters in code point order, from U+0020;
\* "" holds the place of U+0060, which no pattern or line below contains
AsciiChars == <<
  " ", "!", "\"", "#", "$", "%", "&", "'", "(", ")", "*", "+", ",", "-", ".",
  "/", "0", "1", "2", "3", "4", "5", "6", "7", "8", "9", ":", ";", "<", "=",
  ">", "?", "@", "A", "B", "C", "D", "E", "F", "G", "H", "I", "J", "K", "L",
  "M", "N", "O", "P", "Q", "R", "S", "T", "U", "V", "W", "X", "Y", "Z", "[",
  "\\", "]", "^", "_", "", "a", "b", "c", "d", "e", "f", "g", "h", "i", "j",
  "k", "l", "m", "n", "o", "p", "q", "r", "s", "t", "u", "v", "w", "x", "y",
  "z", "{", "|", "}", "~" >>

\* ord(c) of a printable ASCII character, tab or newline
Ord(c) ==
  IF c = "\n" THEN 10
  ELSE IF c = "\t" THEN 9
  ELSE 31 + CHOOSE i \in 1..Len(AsciiChars) : AsciiChars[i] = c

\* a str literal: the code points of a sequence of characters
Text(s) == [i \in 1..Len(s) |-> Ord(s[i])]

\* the code points of a set of characters
Ch(S) == {Ord(c) : c \in S}

\* the ASCII characters that \w matches: letters, digits, underscore
AsciiWordChars == (48..57) \cup (65..90) \cup {95} \cup (97..122)

\* the code point ranges above U+007F that \w matches in a str pattern: the
\* alphanumerics of the Unicode database (version 14.0, CPython 3.11)
WordRanges == {
  <<170,170>>, <<178,179>>, <<181,181>>, <<185,186>>, <<188,190>>,
  <<192,214>>, <<216,246>>, <<248,705>>, <<710,721>>, <<736,740>>,
  <<748,748>>, <<750,750>>, <<880,884>>, <<886,887>>, <<890,893>>,
  <<895,895>>, <<902,902>>, <<904,906>>, <<908,908>>, <<910,929>>,
  <<931,1013>>, <<1015,1153>>, <<1162,1327>>, <<1329,1366>>, <<1369,1369>>,
  <<1376,1416>>, <<1488,1514>>, <<1519,1522>>, <<1568,1610>>, <<1632,1641>>,
  <<1646,1647>>, <<1649,1747>>, <<1749,1749>>, <<1765,1766>>, <<1774,1788>>,
  <<1791,1791>>, <<1808,1808>>, <<1810,1839>>, <<1869,1957>>, <<1969,1969>>,
  <<1984,2026>>, <<2036,2037>>, <<2042,2042>>, <<2048,2069>>, <<2074,2074>>,
  <<2084,2084>>, <<2088,2088>>, <<2112,2136>>, <<2144,2154>>, <<2160,2183>>,
  <<2185,2190>>, <<2208,2249>>, <<2308,2361>>, <<2365,2365>>, <<2384,2384>>,
  <<2392,2401>>, <<2406,2415>>, <<2417,2432>>, <<2437,2444>>, <<2447,2448>>,
  <<2451,2472>>, <<2474,2480>>, <<2482,2482>>, <<2486,2489>>, <<2493,2493>>,
  <<2510,2510>>, <<2524,2525>>, <<2527,2529>>, <<2534,2545>>, <<2548,2553>>,
  <<2556,2556>>, <<2565,2570>>, <<2575,2576>>, <<2579,2600>>, <<2602,2608>>,
  <<2610,2611>>, <<2613,2614>>, <<2616,2617>>, <<2649,2652>>, <<2654,2654>>,
  <<2662,2671>>, <<2674,2676>>, <<2693,2701>>, <<2703,2705>>, <<2707,2728>>,
  <<2730,2736>>, <<2738,2739>>, <<2741,2745>>, <<2749,2749>>, <<2768,2768>>,
  <<2784,2785>>, <<2790,2799>>, <<2809,2809>>, <<2821,2828>>, <<2831,2832>>,
  <<2835,2856>>, <<2858,2864>>, <<2866,2867>>, <<2869,2873>>, <<2877,2877>>,
  <<2908,2909>>, <<2911,2913>>, <<2918,2927>>, <<2929,2935>>, <<2947,2947>>,
  <<2949,2954>>, <<2958,2960>>, <<2962,2965>>, <<2969,2970>>, <<2972,2972>>,
  <<2974,2975>>, <<2979,2980>>, <<2984,2986>>, <<2990,3001>>, <<3024,3024>>,
  <<3046,3058>>, <<3077,3084>>, <<3086,3088>>, <<3090,3112>>, <<3114,3129>>,
  <<3133,3133>>, <<3160,3162>>, <<3165,3165>>, <<3168,3169>>, <<3174,3183>>,
  <<3192,3198>>, <<3200,3200>>, <<3205,3212>>, <<3214,3216>>, <<3218,3240>>,
  <<3242,3251>>, <<3253,3257>>, <<3261,3261>>, <<3293,3294>>, <<3296,3297>>,
  <<3302,3311>>, <<3313,3314>>, <<3332,3340>>, <<3342,3344>>, <<3346,3386>>,
  <<3389,3389>>, <<3406,3406>>, <<3412,3414>>, <<3416,3425>>, <<3430,3448>>,
  <<3450,3455>>, <<3461,3478>>, <<3482,3505>>, <<3507,3515>>, <<3517,3517>>,
  <<3520,3526>>, <<3558,3567>>, <<3585,3632>>, <<3634,3635>>, <<3648,3654>>,
  <<3664,3673>>, <<3713,3714>>, <<3716,3716>>, <<3718,3722>>, <<3724,3747>>,
  <<3749,3749>>, <<3751,3760>>, <<3762,3763>>, <<3773,3773>>, <<3776,3780>>,
  <<3782,3782>>, <<3792,3801>>, <<3804,3807>>, <<3840,3840>>, <<3872,3891>>,
  <<3904,3911>>, <<3913,3948>>, <<3976,3980>>, <<4096,4138>>, <<4159,4169>>,
  <<4176,4181>>, <<4186,4189>>, <<4193,4193>>, <<4197,4198>>, <<4206,4208>>,
  <<4213,4225>>, <<4238,4238>>, <<4240,4249>>, <<4256,4293>>, <<4295,4295>>,
  <<4301,4301>>, <<4304,4346>>, <<4348,4680>>, <<4682,4685>>, <<4688,4694>>,
  <<4696,4696>>, <<4698,4701>>, <<4704,4744>>, <<4746,4749>>, <<4752,4784>>,
  <<4786,4789>>, <<4792,4798>>, <<4800,4800>>, <<4802,4805>>, <<4808,4822>>,
  <<4824,4880>>, <<4882,4885>>, <<4888,4954>>, <<4969,4988>>, <<4992,5007>>,
  <<5024,5109>>, <<5112,5117>>, <<5121,5740>>, <<5743,5759>>, <<5761,5786>>,
  <<5792,5866>>, <<5870,5880>>, <<5888,5905>>, <<5919,5937>>, <<5952,5969>>,
  <<5984,5996>>, <<5998,6000>>, <<6016,6067>>, <<6103,6103>>, <<6108,6108>>,
  <<6112,6121>>, <<6128,6137>>, <<6160,6169>>, <<6176,6264>>, <<6272,6276>>,
  <<6279,6312>>, <<6314,6314>>, <<6320,6389>>, <<6400,6430>>, <<6470,6509>>,
  <<6512,6516>>, <<6528,6571>>, <<6576,6601>>, <<6608,6618>>, <<6656,6678>>,
  <<6688,6740>>, <<6784,6793>>, <<6800,6809>>, <<6823,6823>>, <<6917,6963>>,
  <<6981,6988>>, <<6992,7001>>, <<7043,7072>>, <<7086,7141>>, <<7168,7203>>,
  <<7232,7241>>, <<7245,7293>>, <<7296,7304>>, <<7312,7354>>, <<7357,7359>>,
  <<7401,7404>>, <<7406,7411>>, <<7413,7414>>, <<7418,7418>>, <<7424,7615>>,
  <<7680,7957>>, <<7960,7965>>, <<7968,8005>>, <<8008,8013>>, <<8016,8023>>,
  <<8025,8025>>, <<8027,8027>>, <<8029,8029>>, <<8031,8061>>, <<8064,8116>>,
  <<8118,8124>>, <<8126,8126>>, <<8130,8132>>, <<8134,8140>>, <<8144,8147>>,
  <<8150,8155>>, <<8160,8172>>, <<8178,8180>>, <<8182,8188>>, <<8304,8305>>,
  <<8308,8313>>, <<8319,8329>>, <<8336,8348>>, <<8450,8450>>, <<8455,8455>>,
  <<8458,8467>>, <<8469,8469>>, <<8473,8477>>, <<8484,8484>>, <<8486,8486>>,
  <<8488,8488>>, <<8490,8493>>, <<8495,8505>>, <<8508,8511>>, <<8517,8521>>,
  <<8526,8526>>, <<8528,8585>>, <<9312,9371>>, <<9450,9471>>,
  <<10102,10131>>, <<11264,11492>>, <<11499,11502>>, <<11506,11507>>,
  <<11517,11517>>, <<11520,11557>>, <<11559,11559>>, <<11565,11565>>,
  <<11568,11623>>, <<11631,11631>>, <<11648,11670>>, <<11680,11686>>,
  <<11688,11694>>, <<11696,11702>>, <<11704,11710>>, <<11712,11718>>,
  <<11720,11726>>, <<11728,11734>>, <<11736,11742>>, <<11823,11823>>,
  <<12293,12295>>, <<12321,12329>>, <<12337,12341>>, <<12344,12348>>,
  <<12353,12438>>, <<12445,12447>>, <<12449,12538>>, <<12540,12543>>,
  <<12549,12591>>, <<12593,12686>>, <<12690,12693>>, <<12704,12735>>,
  <<12784,12799>>, <<12832,12841>>, <<12872,12879>>, <<12881,12895>>,
  <<12928,12937>>, <<12977,12991>>, <<13312,19903>>, <<19968,42124>>,
  <<42192,42237>>, <<42240,42508>>, <<42512,42539>>, <<42560,42606>>,
  <<42623,42653>>, <<42656,42735>>, <<42775,42783>>, <<42786,42888>>,
  <<42891,42954>>, <<42960,42961>>, <<42963,42963>>, <<42965,42969>>,
  <<42994,43009>>, <<43011,43013>>, <<43015,43018>>, <<43020,43042>>,
  <<43056,43061>>, <<43072,43123>>, <<43138,43187>>, <<43216,43225>>,
  <<43250,43255>>, <<43259,43259>>, <<43261,43262>>, <<43264,43301>>,
  <<43312,43334>>, <<43360,43388>>, <<43396,43442>>, <<43471,43481>>,
  <<43488,43492>>, <<43494,43518>>, <<43520,43560>>, <<43584,43586>>,
  <<43588,43595>>, <<43600,43609>>, <<43616,43638>>, <<43642,43642>>,
  <<43646,43695>>, <<43697,43697>>, <<43701,43702>>, <<43705,43709>>,
  <<43712,43712>>, <<43714,43714>>, <<43739,43741>>, <<43744,43754>>,
  <<43762,43764>>, <<43777,43782>>, <<43785,43790>>, <<43793,43798>>,
  <<43808,43814>>, <<43816,43822>>, <<43824,43866>>, <<43868,43881>>,
  <<43888,44002>>, <<44016,44025>>, <<44032,55203>>, <<55216,55238>>,
  <<55243,55291>>, <<63744,64109>>, <<64112,64217>>, <<64256,64262>>,
  <<64275,64279>>, <<64285,64285>>, <<64287,64296>>, <<64298,64310>>,
  <<64312,64316>>, <<64318,64318>>, <<64320,64321>>, <<64323,64324>>,
  <<64326,64433>>, <<64467,64829>>, <<64848,64911>>, <<64914,64967>>,
  <<65008,65019>>, <<65136,65140>>, <<65142,65276>>, <<65296,65305>>,
  <<65313,65338>>, <<65345,65370>>, <<65382,65470>>, <<65474,65479>>,
  <<65482,65487>>, <<65490,65495>>, <<65498,65500>>, <<65536,65547>>,
  <<65549,65574>>, <<65576,65594>>, <<65596,65597>>, <<65599,65613>>,
  <<65616,65629>>, <<65664,65786>>, <<65799,65843>>, <<65856,65912>>,
  <<65930,65931>>, <<66176,66204>>, <<66208,66256>>, <<66273,66299>>,
  <<66304,66339>>, <<66349,66378>>, <<66384,66421>>, <<66432,66461>>,
  <<66464,66499>>, <<66504,66511>>, <<66513,66517>>, <<66560,66717>>,
  <<66720,66729>>, <<66736,66771>>, <<66776,66811>>, <<66816,66855>>,
  <<66864,66915>>, <<66928,66938>>, <<66940,66954>>, <<66956,66962>>,
  <<66964,66965>>, <<66967,66977>>, <<66979,66993>>, <<66995,67001>>,
  <<67003,67004>>, <<67072,67382>>, <<67392,67413>>, <<67424,67431>>,
  <<67456,67461>>, <<67463,67504>>, <<67506,67514>>, <<67584,67589>>,
  <<67592,67592>>, <<67594,67637>>, <<67639,67640>>, <<67644,67644>>,
  <<67647,67669>>, <<67672,67702>>, <<67705,67742>>, <<67751,67759>>,
  <<67808,67826>>, <<67828,67829>>, <<67835,67867>>, <<67872,67897>>,
  <<67968,68023>>, <<68028,68047>>, <<68050,68096>>, <<68112,68115>>,
  <<68117,68119>>, <<68121,68149>>, <<68160,68168>>, <<68192,68222>>,
  <<68224,68255>>, <<68288,68295>>, <<68297,68324>>, <<68331,68335>>,
  <<68352,68405>>, <<68416,68437>>, <<68440,68466>>, <<68472,68497>>,
  <<68521,68527>>, <<68608,68680>>, <<68736,68786>>, <<68800,68850>>,
  <<68858,68899>>, <<68912,68921>>, <<69216,69246>>, <<69248,69289>>,
  <<69296,69297>>, <<69376,69415>>, <<69424,69445>>, <<69457,69460>>,
  <<69488,69505>>, <<69552,69579>>, <<69600,69622>>, <<69635,69687>>,
  <<69714,69743>>, <<69745,69746>>, <<69749,69749>>, <<69763,69807>>,
  <<69840,69864>>, <<69872,69881>>, <<69891,69926>>, <<69942,69951>>,
  <<69956,69956>>, <<69959,69959>>, <<69968,70002>>, <<70006,70006>>,
  <<70019,70066>>, <<70081,70084>>, <<70096,70106>>, <<70108,70108>>,
  <<70113,70132>>, <<70144,70161>>, <<70163,70187>>, <<70272,70278>>,
  <<70280,70280>>, <<70282,70285>>, <<70287,70301>>, <<70303,70312>>,
  <<70320,70366>>, <<70384,70393>>, <<70405,70412>>, <<70415,70416>>,
  <<70419,70440>>, <<70442,70448>>, <<70450,70451>>, <<70453,70457>>,
  <<70461,70461>>, <<70480,70480>>, <<70493,70497>>, <<70656,70708>>,
  <<70727,70730>>, <<70736,70745>>, <<70751,70753>>, <<70784,70831>>,
  <<70852,70853>>, <<70855,70855>>, <<70864,70873>>, <<71040,71086>>,
  <<71128,71131>>, <<71168,71215>>, <<71236,71236>>, <<71248,71257>>,
  <<71296,71338>>, <<71352,71352>>, <<71360,71369>>, <<71424,71450>>,
  <<71472,71483>>, <<71488,71494>>, <<71680,71723>>, <<71840,71922>>,
  <<71935,71942>>, <<71945,71945>>, <<71948,71955>>, <<71957,71958>>,
  <<71960,71983>>, <<71999,71999>>, <<72001,72001>>, <<72016,72025>>,
  <<72096,72103>>, <<72106,72144>>, <<72161,72161>>, <<72163,72163>>,
  <<72192,72192>>, <<72203,72242>>, <<72250,72250>>, <<72272,72272>>,
  <<72284,72329>>, <<72349,72349>>, <<72368,72440>>, <<72704,72712>>,
  <<72714,72750>>, <<72768,72768>>, <<72784,72812>>, <<72818,72847>>,
  <<72960,72966>>, <<72968,72969>>, <<72971,73008>>, <<73030,73030>>,
  <<73040,73049>>, <<73056,73061>>, <<73063,73064>>, <<73066,73097>>,
  <<73112,73112>>, <<73120,73129>>, <<73440,73458>>, <<73648,73648>>,
  <<73664,73684>>, <<73728,74649>>, <<74752,74862>>, <<74880,75075>>,
  <<77712,77808>>, <<77824,78894>>, <<82944,83526>>, <<92160,92728>>,
  <<92736,92766>>, <<92768,92777>>, <<92784,92862>>, <<92864,92873>>,
  <<92880,92909>>, <<92928,92975>>, <<92992,92995>>, <<93008,93017>>,
  <<93019,93025>>, <<93027,93047>>, <<93053,93071>>, <<93760,93846>>,
  <<93952,94026>>, <<94032,94032>>, <<94099,94111>>, <<94176,94177>>,
  <<94179,94179>>, <<94208,100343>>, <<100352,101589>>, <<101632,101640>>,
  <<110576,110579>>, <<110581,110587>>, <<110589,110590>>, <<110592,110882>>,
  <<110928,110930>>, <<110948,110951>>, <<110960,111355>>, <<113664,113770>>,
  <<113776,113788>>, <<113792,113800>>, <<113808,113817>>, <<119520,119539>>,
  <<119648,119672>>, <<119808,119892>>, <<119894,119964>>, <<119966,119967>>,
  <<119970,119970>>, <<119973,119974>>, <<119977,119980>>, <<119982,119993>>,
  <<119995,119995>>, <<119997,120003>>, <<120005,120069>>, <<120071,120074>>,
  <<120077,120084>>, <<120086,120092>>, <<120094,120121>>, <<120123,120126>>,
  <<120128,120132>>, <<120134,120134>>, <<120138,120144>>, <<120146,120485>>,
  <<120488,120512>>, <<120514,120538>>, <<120540,120570>>, <<120572,120596>>,
  <<120598,120628>>, <<120630,120654>>, <<120656,120686>>, <<120688,120712>>,
  <<120714,120744>>, <<120746,120770>>, <<120772,120779>>, <<120782,120831>>,
  <<122624,122654>>, <<123136,123180>>, <<123191,123197>>, <<123200,123209>>,
  <<123214,123214>>, <<123536,123565>>, <<123584,123627>>, <<123632,123641>>,
  <<124896,124902>>, <<124904,124907>>, <<124909,124910>>, <<124912,124926>>,
  <<124928,125124>>, <<125127,125135>>, <<125184,125251>>, <<125259,125259>>,
  <<125264,125273>>, <<126065,126123>>, <<126125,126127>>, <<126129,126132>>,
  <<126209,126253>>, <<126255,126269>>, <<126464,126467>>, <<126469,126495>>,
  <<126497,126498>>, <<126500,126500>>, <<126503,126503>>, <<126505,126514>>,
  <<126516,126519>>, <<126521,126521>>, <<126523,126523>>, <<126530,126530>>,
  <<126535,126535>>, <<126537,126537>>, <<126539,126539>>, <<126541,126543>>,
  <<126545,126546>>, <<126548,126548>>, <<126551,126551>>, <<126553,126553>>,
  <<126555,126555>>, <<126557,126557>>, <<126559,126559>>, <<126561,126562>>,
  <<126564,126564>>, <<126567,126570>>, <<126572,126578>>, <<126580,126583>>,
  <<126585,126588>>, <<126590,126590>>, <<126592,126601>>, <<126603,126619>>,
  <<126625,126627>>, <<126629,126633>>, <<126635,126651>>, <<127232,127244>>,
  <<130032,130041>>, <<131072,173791>>, <<173824,177976>>, <<177984,178205>>,
  <<178208,183969>>, <<183984,191456>>, <<194560,195101>>, <<196608,201546>> }

\* whether \w of the patterns of lines 17-25 matches code point c
IsWordChar(c) ==
  IF c < 128 THEN c \in AsciiWordChars
  ELSE \E r \in WordRanges : r[1] <= c /\ c <= r[2]

\* shlex.wordchars (non-posix): ASCII letters, digits, underscore
ShlexWordChars == (97..122) \cup (65..90) \cup (48..57) \cup {95}

\* what str.strip() removes: the characters str.isspace() holds of
Whitespace ==
  (9..13) \cup (28..32) \cup {133, 160, 5760} \cup (8192..8202)
  \cup {8232, 8233, 8239, 8287, 12288}

\* shlex.whitespace: space, tab, carriage return, newline
ShlexWhitespace == {32, 9, 13, 10}

\* shlex.quotes
Quotes == Ch({"'", "\""})

\* shlex.commenters
Commenters == Ch({"#"})

(* ------------------------------------------------------------------------ *)
(* The matcher                                                              *)
(* ------------------------------------------------------------------------ *)

\* one regex element: a character class (the characters of set, with those
\* of \w when word holds, or the complement when neg holds) with a
\* quantifier: min in {0,1}, many = unbounded repetition
Elt(set, word, neg, min, many) ==
  [set |-> set, word |-> word, neg |-> neg, min |-> min, many |-> many]

One(set)     == Elt(set, FALSE, FALSE, 1, FALSE)
Star(set)    == Elt(set, FALSE, FALSE, 0, TRUE)
Plus(set)    == Elt(set, FALSE, FALSE, 1, TRUE)
Opt(set)     == Elt(set, FALSE, FALSE, 0, FALSE)
NotOne(set)  == Elt(set, FALSE, TRUE, 1, FALSE)
NotStar(set) == Elt(set, FALSE, TRUE, 0, TRUE)
NotPlus(set) == Elt(set, FALSE, TRUE, 1, TRUE)

\* \w+ and [\w.]+ (set holds the other characters of the class), and \w?
PlusWord(set) == Elt(set, TRUE, FALSE, 1, TRUE)
OptWord       == Elt({}, TRUE, FALSE, 0, FALSE)

\* a literal character, and a literal word: one element per character
Lit(c) == One({Ord(c)})
Lits(w) == [i \in 1..Len(w) |-> Lit(w[i])]

InClass(c, e) == (c \in e.set \/ (e.word /\ IsWordChar(c))) # e.neg

\* the longest run of characters of e's class in s from position p, capped by
\* the quantifier
RECURSIVE Run(_, _, _, _)
Run(e, s, p, k) ==
  IF p + k > Len(s) THEN k
  ELSE IF ~InClass(s[p + k], e) THEN k
  ELSE IF ~e.many /\ k >= 1 THEN k
  ELSE Run(e, s, p, k + 1)

\* match elements i.. of re at position p of s: the start position of each
\* element then the end position, or << >> when there is no match.  The
\* greedy count is tried first, then one less, as a backtracking matcher does:
\* r is what the rest of the pattern matched after k characters for element i.
RECURSIVE MatchFrom(_, _, _, _)
RECURSIVE TryCount(_, _, _, _, _)
RECURSIVE Backtrack(_, _, _, _, _, _)
TryCount(re, s, i, p, k) ==
  IF k < re[i].min THEN << >>
  ELSE Backtrack(re, s, i, p, k, MatchFrom(re, s, i + 1, p + k))

Backtrack(re, s, i, p, k, r) ==
  IF r # << >> THEN <<p>> \o r ELSE TryCount(re, s, i, p, k - 1)

MatchFrom(re, s, i, p) ==
  IF i > Len(re) THEN <<p>>
  ELSE TryCount(re, s, i, p, Run(re[i], s, p, 0))

\* pattern.match(s): anchored at the start of s
ReMatch(re, s) == MatchFrom(re, s, 1, 1)

\* pattern.search(s): the leftmost start with a match; r is the match at p
RECURSIVE SearchFrom(_, _, _)
RECURSIVE SearchNext(_, _, _, _)
SearchFrom(re, s, p) ==
  IF p > Len(s) + 1 THEN << >>
  ELSE SearchNext(re, s, p, MatchFrom(re, s, 1, p))

SearchNext(re, s, p, r) ==
  IF r # << >> THEN r ELSE SearchFrom(re, s, p + 1)

ReSearch(re, s) == SearchFrom(re, s, 1)

\* the text a match m captured between elements i and j (inclusive)
Group(s, m, i, j) == SubSeq(s, m[i], m[j + 1] - 1)

\* m.end(): the position after the match
MEnd(m) == m[Len(m)]

\* s[p:] with p the 1-based first position kept
Rest(s, p) == SubSeq(s, p, Len(s))

(* ------------------------------------------------------------------------ *)
(* The module's patterns                                                    *)
(* ------------------------------------------------------------------------ *)

SP == Star(Ch({" "}))
W1 == PlusWord({})
WD == PlusWord(Ch({"."}))
Q  == Lit("\"")

\* (\w+) *= *\w+ *-> *make *< *TTree *> *\( *"(\w+)" *      groups: 1, 28
RE_TTREE_1 ==
  <<W1, SP, Lit("="), SP, W1, SP, Lit("-"), Lit(">"), SP>>
  \o Lits(<<"m","a","k","e">>) \o <<SP, Lit("<"), SP>>
  \o Lits(<<"T","T","r","e","e">>)
  \o <<SP, Lit(">"), SP, Lit("("), SP, Q, W1, Q, SP>>

\* (\w+) *= *new *TTree *\( *"(\w+)" *                      groups: 1, 18
RE_TTREE_2 ==
  <<W1, SP, Lit("="), SP>> \o Lits(<<"n","e","w">>) \o <<SP>>
  \o Lits(<<"T","T","r","e","e">>) \o <<SP, Lit("("), SP, Q, W1, Q, SP>>

\* , *"(.*)" *\)                                            group: 4
RE_TTREE_ARGS ==
  <<Lit(","), SP, Q, NotStar(Ch({"\n"})), Q, SP, Lit(")")>>

\* (\w+) *-> *Branch *\( *"(\w+)" *                         groups: 1, 16
RE_BRANCH ==
  <<W1, SP, Lit("-"), Lit(">"), SP>>
  \o Lits(<<"B","r","a","n","c","h">>) \o <<SP, Lit("("), SP, Q, W1, Q, SP>>

\* , *&?([\w.]+) *, *"(\w+/?\w?)" *[,)]                     groups: 4, 9..11
RE_BRANCH_ARGS_1 ==
  <<Lit(","), SP, Opt(Ch({"&"})), WD, SP, Lit(","), SP, Q,
    W1, Opt(Ch({"/"})), OptWord, Q, SP, One(Ch({",", ")"}))>>

\* , *([\w.]+) *, *"(\w+\[\w+\]/?\w?)" *[,)]                groups: 3, 8..13
RE_BRANCH_ARGS_2 ==
  <<Lit(","), SP, WD, SP, Lit(","), SP, Q,
    W1, Lit("["), W1, Lit("]"), Opt(Ch({"/"})), OptWord, Q, SP,
    One(Ch({",", ")"}))>>

\* , *("[^"]+") *, *&?([\w.]+) *[,)]                        groups: 3..5, 10
RE_BRANCH_ARGS_3 ==
  <<Lit(","), SP, Q, NotPlus(Ch({"\""})), Q, SP, Lit(","), SP, Opt(Ch({"&"})),
    WD, SP, One(Ch({",", ")"}))>>

\* , *&?([\w.]+) *[,)]                                      group: 4
RE_BRANCH_ARGS_4 ==
  <<Lit(","), SP, Opt(Ch({"&"})), WD, SP, One(Ch({",", ")"}))>>

(* ------------------------------------------------------------------------ *)
(* What one line yields in each pass                                        *)
(* ------------------------------------------------------------------------ *)

NoText == << >>

\* lines 116-121: the binding of a creation statement that matched as m, its
\* name being group g of m; a is the match of RE_TTREE_ARGS after m
TreeWith(line, m, g, a) ==
  [hit |-> TRUE,
   tvarname |-> Group(line, m, 1, 1),
   treename |-> Group(line, m, g, g),
   treetitle |-> IF a # << >> THEN Group(Rest(line, MEnd(m)), a, 4, 4)
                 ELSE line]

TreeAt(line, m, g) ==
  TreeWith(line, m, g, ReMatch(RE_TTREE_ARGS, Rest(line, MEnd(m))))

\* lines 111-115: m1 and m2 are the matches of the two creation patterns
TreeFrom(line, m1, m2) ==
  IF m1 # << >> THEN TreeAt(line, m1, 28)
  ELSE IF m2 # << >> THEN TreeAt(line, m2, 18)
  ELSE [hit |-> FALSE, tvarname |-> NoText, treename |-> NoText,
        treetitle |-> NoText]

\* lines 111-121: the creation statement of a line, if any, and its title
ParseTree(line) ==
  TreeFrom(line, ReSearch(RE_TTREE_1, line), ReSearch(RE_TTREE_2, line))

\* what a registration yields; shape 0 is the unrecognized syntax that raises
BranchRec(k, tv, bn, bv, bl) ==
  [hit |-> TRUE, shape |-> k, tvarname |-> tv, branchname |-> bn,
   bvalvarname |-> bv, bleafdef |-> bl]

\* lines 172-183: a1..a4 are the matches of the four argument patterns on s,
\* the text after the registration call's field name
BranchShape(tv, bn, s, a1, a2, a3, a4) ==
  IF a1 # << >>
    THEN BranchRec(1, tv, bn, Group(s, a1, 4, 4), Group(s, a1, 9, 11))
  ELSE IF a2 # << >>
    THEN BranchRec(2, tv, bn, Group(s, a2, 3, 3), Group(s, a2, 8, 13))
  ELSE IF a3 # << >>
    THEN BranchRec(3, tv, bn, Group(s, a3, 10, 10),
                   bn \o Text(<<" ", "(">>) \o Group(s, a3, 3, 5)
                      \o Text(<<")">>))
  ELSE IF a4 # << >>
    THEN BranchRec(4, tv, bn, Group(s, a4, 4, 4),
                   bn \o Text(<<" ","(","o","b","j","e","c","t",")">>))
  ELSE BranchRec(0, tv, bn, NoText, NoText)

BranchArgs(tv, bn, s) ==
  BranchShape(tv, bn, s, ReMatch(RE_BRANCH_ARGS_1, s),
              ReMatch(RE_BRANCH_ARGS_2, s), ReMatch(RE_BRANCH_ARGS_3, s),
              ReMatch(RE_BRANCH_ARGS_4, s))

\* lines 167-171: m is the match of RE_BRANCH on the line
BranchFrom(line, m) ==
  IF m = << >>
  THEN [hit |-> FALSE, shape |-> 0, tvarname |-> NoText,
        branchname |-> NoText, bvalvarname |-> NoText, bleafdef |-> NoText]
  ELSE BranchArgs(Group(line, m, 1, 1), Group(line, m, 16, 16),
                  Rest(line, MEnd(m)))

\* lines 167-183: the registration of a line, if any
ParseBranch(line) == BranchFrom(line, ReSearch(RE_BRANCH, line))

\* str.strip(): whitespace removed at both ends
RECURSIVE LStrip(_)
LStrip(s) == IF s # << >> /\ Head(s) \in Whitespace THEN LStrip(Tail(s)) ELSE s

RECURSIVE RStrip(_)
RStrip(s) ==
  IF s # << >> /\ s[Len(s)] \in Whitespace
  THEN RStrip(SubSeq(s, 1, Len(s) - 1)) ELSE s

Strip(s) == RStrip(LStrip(s))

\* the states of shlex.read_token: ' ' between tokens, 'a' in a word, or the
\* open quote character
Between == Ord(" ")
InWord == Ord("a")

\* shlex.shlex(line) read to its end (non-posix read_token): the set of tokens,
\* or closed = FALSE when the text ends inside a quotation (ValueError)
RECURSIVE Lex(_, _, _, _, _)
Lex(s, p, st, tok, acc) ==
  IF p > Len(s)
  THEN IF st \in Quotes THEN [closed |-> FALSE, toks |-> acc]
       ELSE [closed |-> TRUE,
             toks |-> IF tok # << >> THEN acc \cup {tok} ELSE acc]
  ELSE LET c == s[p] IN
    IF st = Between THEN
      IF c \in ShlexWhitespace THEN Lex(s, p + 1, Between, << >>, acc)
      ELSE IF c \in Commenters THEN Lex(s, Len(s) + 1, Between, << >>, acc)
      ELSE IF c \in ShlexWordChars THEN Lex(s, p + 1, InWord, <<c>>, acc)
      ELSE IF c \in Quotes THEN Lex(s, p + 1, c, <<c>>, acc)
      ELSE Lex(s, p + 1, Between, << >>, acc \cup {<<c>>})
    ELSE IF st \in Quotes THEN
      IF c = st THEN Lex(s, p + 1, Between, << >>, acc \cup {tok \o <<c>>})
      ELSE Lex(s, p + 1, st, tok \o <<c>>, acc)
    ELSE
      IF c \in ShlexWhitespace
        THEN Lex(s, p + 1, Between, << >>, acc \cup {tok})
      ELSE IF c \in Commenters THEN Lex(s, Len(s) + 1, InWord, tok, acc)
      ELSE IF c \in ShlexWordChars \cup Quotes
        THEN Lex(s, p + 1, InWord, tok \o <<c>>, acc)
      ELSE Lex(s, p + 1, Between, << >>, acc \cup {tok, <<c>>})

Tokens(line) == Lex(line, 1, Between, << >>, {})

\* an identifier spliced into a pattern: "." is the regex wildcard there
BvElts(bv) ==
  [i \in 1..Len(bv) |->
     IF bv[i] = Ord(".") THEN NotOne(Ch({"\n"})) ELSE One({bv[i]})]

\* line 224: re.search(f"{bv}.*/[/*]", line)
IsCommentFor_AnyMarker(bv, line) ==
  /\ ReSearch(BvElts(bv), line) # << >>
  /\ ReSearch(<<Lit("/"), One(Ch({"/", "*"}))>>, line) # << >>

IsCommentFor(bv, line) ==
  ReSearch(BvElts(bv) \o <<NotStar(Ch({"\n"})), Lit("/"), One(Ch({"/", "*"}))>>,
           line) # << >>

\* line 230: re.search(f"{bv}[^=]*=[^=]", line)
IsAssignFor_AnyLater(bv, line) ==
  ReSearch(BvElts(bv) \o <<NotStar(Ch({"\n"})), Lit("="), NotOne(Ch({"="}))>>,
           line) # << >>

IsAssignFor(bv, line) ==
  ReSearch(BvElts(bv) \o <<NotStar(Ch({"="})), Lit("="), NotOne(Ch({"="}))>>,
           line) # << >>

(* ------------------------------------------------------------------------ *)
(* Input: source lines and files                                            *)
(* ------------------------------------------------------------------------ *)

\* the source lines the files are made of (without their line terminator)
Pool == <<
  \*  1  t = obj->make<TTree>("mytree", "my title")
  Text(<<"t"," ","="," ","o","b","j","-",">","m","a","k","e","<","T","T","r",
    "e","e",">","(","\"","m","y","t","r","e","e","\"",","," ","\"","m","y",
    " ","t","i","t","l","e","\"",")">>),
  \*  2  t->Branch("b1", &x, "x/F")
  Text(<<"t","-",">","B","r","a","n","c","h","(","\"","b","1","\"",","," ",
    "&","x",","," ","\"","x","/","F","\"",")">>),
  \*  3  // x holds energy
  Text(<<"/","/"," ","x"," ","h","o","l","d","s"," ","e","n","e","r","g","y">>),
  \*  4  x = 3.14;
  Text(<<"x"," ","="," ","3",".","1","4",";">>),
  \*  5  t = new TTree("u", "other");
  Text(<<"t"," ","="," ","n","e","w"," ","T","T","r","e","e","(","\"","u",
    "\"",","," ","\"","o","t","h","e","r","\"",")",";">>),
  \*  6  u->Branch("b1", &y);
  Text(<<"u","-",">","B","r","a","n","c","h","(","\"","b","1","\"",","," ",
    "&","y",")",";">>),
  \*  7  t->Branch("b1", &y, "y/F");
  Text(<<"t","-",">","B","r","a","n","c","h","(","\"","b","1","\"",","," ",
    "&","y",","," ","\"","y","/","F","\"",")",";">>),
  \*  8  x = 5; // sets x to five
  Text(<<"x"," ","="," ","5",";"," ","/","/"," ","s","e","t","s"," ","x"," ",
    "t","o"," ","f","i","v","e">>),
  \*  9  y == 5
  Text(<<"y"," ","=","="," ","5">>),
  \* 10  if (x == 5) y = 3;
  Text(<<"i","f"," ","(","x"," ","=","="," ","5",")"," ","y"," ","="," ","3",
    ";">>),
  \* 11  t->Branch("bad");
  Text(<<"t","-",">","B","r","a","n","c","h","(","\"","b","a","d","\"",")",";">>),
  \* 12  // say "hi
  Text(<<"/","/"," ","s","a","y"," ","\"","h","i">>),
  \* 13  t->Branch("arr", x, "arr[n]/F");
  Text(<<"t","-",">","B","r","a","n","c","h","(","\"","a","r","r","\"",",",
    " ","x",","," ","\"","a","r","r","[","n","]","/","F","\"",")",";">>),
  \* 14  t->Branch("v", "vector<int>", &x);
  Text(<<"t","-",">","B","r","a","n","c","h","(","\"","v","\"",","," ","\"",
    "v","e","c","t","o","r","<","i","n","t",">","\"",","," ","&","x",")",";">>),
  \* 15  t = new TTree("w");
  Text(<<"t"," ","="," ","n","e","w"," ","T","T","r","e","e","(","\"","w",
    "\"",")",";">>),
  \* 16  x =
  Text(<<"x"," ","=">>),
  \* 17  x = y; // copy
  Text(<<"x"," ","="," ","y",";"," ","/","/"," ","c","o","p","y">>),
  \* 18  <U+00E9> = new TTree("arbre_<U+00E9>");
  <<233>>
    \o Text(<<" ","="," ","n","e","w"," ","T","T","r","e","e","(","\"","a",
        "r","b","r","e","_">>)
    \o <<233>>
    \o Text(<<"\"",")",";">>),
  \* 19  <U+00E9>->Branch("b", &x<U+00E9>, "x/F");
  <<233>>
    \o Text(<<"-",">","B","r","a","n","c","h","(","\"","b","\"",","," ","&",
        "x">>)
    \o <<233>>
    \o Text(<<","," ","\"","x","/","F","\"",")",";">>),
  \* 20  x<U+00E9> = 1;
  Text(<<"x">>)
    \o <<233>>
    \o Text(<<" ","="," ","1",";">>),
  \* 21  x =<U+000C>
  Text(<<"x"," ","=">>)
    \o <<12>>,
  \* 22  <U+00A0>y = 1;<U+000C>
  <<160>>
    \o Text(<<"y"," ","="," ","1",";">>)
    \o <<12>>
>>

\* the files' texts, each a sequence of lines of Pool
FileContents ==
  { <<1, 2, 3, 4>>,       \* creation, registration, comment line, assignment
    <<6, 9>>,             \* registration on u, never created
    <<5, 6, 10>>,         \* t created as "u", registration on variable u
    <<1, 2, 7, 10, 17>>,  \* field b1 registered twice, on x then on y
    <<2, 1, 5, 2>>,       \* t bound to "mytree" then to "u"
    <<1, 2, 11, 2, 4>>,   \* unrecognized registration in the middle
    <<1, 2, 12, 4>>,      \* a comment with an unbalanced quote
    <<1, 1>>,             \* the same creation statement on two lines
    <<15, 13, 14, 16>>,   \* title fallback, argument shapes 2 and 3
    <<2, 8>>,             \* registration on t, never created
    <<18, 19, 20>>,       \* identifiers with a non-ASCII letter
    <<1, 2, 6, 21, 22>> } \* lines that end or start with non-ASCII whitespace

\* the paths fill_db_tables reads from flist
Files == {"a.cc", "b.cc"}

\* number of process_one_file calls of one run
MaxCalls == 3

\* a line as iterating over the open file yields it
RawLine(i) == Pool[i] \o Text(<<"\n">>)

\* per line of Pool: what the three passes read from it
TreeOf   == [i \in 1..Len(Pool) |-> ParseTree(RawLine(i))]
BranchOf == [i \in 1..Len(Pool) |-> ParseBranch(RawLine(i))]
StripOf  == [i \in 1..Len(Pool) |-> Strip(RawLine(i))]
TokensOf == [i \in 1..Len(Pool) |-> Tokens(StripOf[i])]

(* ------------------------------------------------------------------------ *)
(* State                                                                    *)
(* ------------------------------------------------------------------------ *)

VARIABLES
  content,      \* path -> the file's text (never written by the program)
  srcfile,      \* table srcfile: filename; fileid is the index
  tree,         \* table tree: treeid is the index
  branch,       \* table branch: branchid is the index
  srccomment,   \* table srccomment
  srcassign,    \* table srcassign
  pc,           \* "idle", "stage1", "stage2", "stage3", or "failed" (raised)
  err,          \* the exception that ended the run, "none" before
  calls,        \* process_one_file calls made so far
  fn,           \* process_one_file: the path being processed
  fileid,       \* its fileid
  fileline,     \* lines read so far in the current pass
  tid_by_tvarname,          \* tree variable -> treeid, as a function
  branchid_by_bvalvarname   \* value variable -> branchid, as a function

db   == <<srcfile, tree, branch, srccomment, srcassign>>
loc  == <<pc, err, calls, fn, fileid, fileline, tid_by_tvarname,
          branchid_by_bvalvarname>>
vars == <<content, db, loc>>

EmptyMap == << >>

\* d[k] = v
Put(d, k, v) == (k :> v) @@ d

\* SELECT ... FROM tree WHERE treename = ? AND fileid = ?: the treeids, in
\* the order the store returns them (by key)
SelectTree(t, treename, fid) ==
  SelectSeq([i \in 1..Len(t) |-> i],
            LAMBDA i : t[i].treename = treename /\ t[i].fileid = fid)

\* SELECT branchid FROM branch WHERE treeid = ? AND branchname = ?
SelectBranch(b, tid, branchname) ==
  SelectSeq([i \in 1..Len(b) |-> i],
            LAMBDA i : b[i].treeid = tid /\ b[i].branchname = branchname)

\* SELECT fileid FROM srcfile WHERE filename = ?
SelectFile(sf, name) ==
  SelectSeq([i \in 1..Len(sf) |-> i], LAMBDA i : sf[i] = name)

\* INSERT INTO <table> ...: the store appends the row under the next integer
\* key; no table refuses a row for repeating another row's columns
Insert(table, row) == Append(table, row)

TreeRow(treename, treetitle, tvarname, fid, line) ==
  [treename |-> treename, treetitle |-> treetitle, tvarname |-> tvarname,
   fileid |-> fid, fileline |-> line]

BranchRow(tid, r, fid, line) ==
  [treeid |-> tid, branchname |-> r.branchname, bleafdef |-> r.bleafdef,
   bvalvarname |-> r.bvalvarname, fileid |-> fid, fileline |-> line]

RefRow(text, bid, fid, line) ==
  [text |-> text, branchid |-> bid, fileid |-> fid, fileline |-> line]

Init ==
  /\ content \in [Files -> FileContents]
  /\ srcfile = << >> /\ tree = << >> /\ branch = << >>
  /\ srccomment = << >> /\ srcassign = << >>
  /\ pc = "idle" /\ err = "none" /\ calls = 0
  /\ fn = "" /\ fileid = 0 /\ fileline = 0
  /\ tid_by_tvarname = EmptyMap /\ branchid_by_bvalvarname = EmptyMap

(* ------------------------------------------------------------------------ *)
(* fill_db_tables and the head of process_one_file                          *)
(* ------------------------------------------------------------------------ *)

\* lines 107 and 162: the maps a call starts with, whatever the previous
\* call left
FreshTidMap_Leak(old) == old

FreshTidMap(old) == EmptyMap

FreshBranchMap(old) == EmptyMap

\* lines 42-43 and 94-108: the next path of flist is opened, its fileid looked
\* up or created, and the first pass starts
OpenFile(f) ==
  /\ pc = "idle" /\ calls < MaxCalls
  /\ LET fids == SelectFile(srcfile, f)
         sf   == IF fids = << >> THEN Insert(srcfile, f) ELSE srcfile
     IN  /\ srcfile' = sf
         /\ fileid' = SelectFile(sf, f)[1]
  /\ fn' = f /\ calls' = calls + 1
  /\ tid_by_tvarname' = FreshTidMap(tid_by_tvarname)
  /\ fileline' = 0 /\ pc' = "stage1"
  /\ UNCHANGED <<content, tree, branch, srccomment, srcassign, err,
                 branchid_by_bvalvarname>>

\* the line the current pass reads next
CurLine == content[fn][fileline + 1]
MoreLines == fileline < Len(content[fn])

(* ------------------------------------------------------------------------ *)
(* Pass 1: construct discovery, lines 109-160                               *)
(* ------------------------------------------------------------------------ *)

\* line 160: tid_by_tvarname[tvarname] = tid, a later binding replacing an
\* earlier one
BindTree_KeepFirst(map, tvarname, tid) ==
  IF tvarname \in DOMAIN map THEN map ELSE Put(map, tvarname, tid)

BindTree(map, tvarname, tid) == Put(map, tvarname, tid)

\* line 147: the stored row against the statement just read
SameTree(row, r, line) ==
  /\ row.treetitle = r.treetitle
  /\ row.tvarname = r.tvarname
  /\ row.fileline = line

Stage1Line ==
  /\ pc = "stage1" /\ MoreLines
  /\ fileline' = fileline + 1
  /\ \E r \in {TreeOf[CurLine]} :
     IF ~r.hit
     THEN UNCHANGED <<tree, pc, err, tid_by_tvarname>>
     ELSE LET found == SelectTree(tree, r.treename, fileid)
              t1    == IF found = << >>
                       THEN Insert(tree, TreeRow(r.treename, r.treetitle,
                                                 r.tvarname, fileid,
                                                 fileline + 1))
                       ELSE tree
              tchecks == SelectTree(t1, r.treename, fileid)
          IN  /\ tree' = t1
              /\ IF Len(tchecks) # 1
                 THEN /\ pc' = "failed" /\ err' = "database error"
                      /\ UNCHANGED tid_by_tvarname
                 ELSE IF ~SameTree(t1[tchecks[1]], r, fileline + 1)
                 THEN /\ pc' = "failed" /\ err' = "database inconsistency"
                      /\ UNCHANGED tid_by_tvarname
                 ELSE /\ tid_by_tvarname' =
                           BindTree(tid_by_tvarname, r.tvarname, tchecks[1])
                      /\ UNCHANGED <<pc, err>>
  /\ UNCHANGED <<content, srcfile, branch, srccomment, srcassign, calls, fn,
                 fileid, branchid_by_bvalvarname>>

\* lines 162-164: the file is rewound for the second pass
Stage1End ==
  /\ pc = "stage1" /\ ~MoreLines
  /\ branchid_by_bvalvarname' = FreshBranchMap(branchid_by_bvalvarname)
  /\ fileline' = 0 /\ pc' = "stage2"
  /\ UNCHANGED <<content, db, err, calls, fn, fileid, tid_by_tvarname>>

(* ------------------------------------------------------------------------ *)
(* Pass 2: field discovery, lines 165-213                                   *)
(* ------------------------------------------------------------------------ *)

\* lines 198-202: the treeid read back after the ghost row is inserted
GhostTid(t, treename, fid) == SelectTree(t, treename, fid)[1]

\* lines 209-213: the branchid read back after the field row is inserted
ReadBackBranchId(b, tid, branchname) == SelectBranch(b, tid, branchname)[1]

\* lines 172-183: none of the four argument shapes matched
Unrecognized_Never(r) == FALSE

Unrecognized(r) == r.shape = 0

\* line 189: whether the registration's tree variable needs a ghost row
NeedsGhost(map, tvarname) == tvarname \notin DOMAIN map

Stage2Line ==
  /\ pc = "stage2" /\ MoreLines
  /\ fileline' = fileline + 1
  /\ \E r \in {BranchOf[CurLine]} :
     IF ~r.hit
     THEN UNCHANGED <<tree, branch, pc, err, tid_by_tvarname,
                      branchid_by_bvalvarname>>
     ELSE IF Unrecognized(r)
     THEN /\ pc' = "failed" /\ err' = "unrecognized branch syntax"
          /\ UNCHANGED <<tree, branch, tid_by_tvarname,
                         branchid_by_bvalvarname>>
     ELSE LET ghost == NeedsGhost(tid_by_tvarname, r.tvarname)
              t1  == IF ghost
                     THEN Insert(tree, TreeRow(r.tvarname, NoText, r.tvarname,
                                               fileid, -1))
                     ELSE tree
              m1  == IF ghost
                     THEN Put(tid_by_tvarname, r.tvarname,
                              GhostTid(t1, r.tvarname, fileid))
                     ELSE tid_by_tvarname
              tid == m1[r.tvarname]
              b1  == Insert(branch, BranchRow(tid, r, fileid, fileline + 1))
          IN  /\ tree' = t1
              /\ tid_by_tvarname' = m1
              /\ branch' = b1
              /\ branchid_by_bvalvarname' =
                   Put(branchid_by_bvalvarname, r.bvalvarname,
                       ReadBackBranchId(b1, tid, r.branchname))
              /\ UNCHANGED <<pc, err>>
  /\ UNCHANGED <<content, srcfile, srccomment, srcassign, calls, fn, fileid>>

\* lines 215-216: the file is rewound for the third pass
Stage2End ==
  /\ pc = "stage2" /\ ~MoreLines
  /\ fileline' = 0 /\ pc' = "stage3"
  /\ UNCHANGED <<content, db, err, calls, fn, fileid, tid_by_tvarname,
                 branchid_by_bvalvarname>>

(* ------------------------------------------------------------------------ *)
(* Pass 3: correlation, lines 217-236                                       *)
(* ------------------------------------------------------------------------ *)

\* the orders in which a set may be iterated
RECURSIVE Orders(_)
Orders(S) ==
  IF S = {} THEN { << >> }
  ELSE UNION { { <<x>> \o o : o \in Orders(S \ {x}) } : x \in S }

\* lines 222-234 for the identifiers of a line in iteration order: the two
\* reference tables after the inserts
RECURSIVE Correlate(_, _, _, _, _, _, _)
Correlate(order, line, map, fid, n, sc, sa) ==
  IF order = << >> THEN <<sc, sa>>
  ELSE LET bv  == Head(order)
           bid == map[bv]
           sc1 == IF IsCommentFor(bv, line)
                  THEN Insert(sc, RefRow(line, bid, fid, n)) ELSE sc
           sa1 == IF IsAssignFor(bv, line)
                  THEN Insert(sa, RefRow(line, bid, fid, n)) ELSE sa
       IN  Correlate(Tail(order), line, map, fid, n, sc1, sa1)

Stage3Line ==
  /\ pc = "stage3" /\ MoreLines
  /\ fileline' = fileline + 1
  /\ LET line == StripOf[CurLine]
         lex  == TokensOf[CurLine]
     IN  IF ~lex.closed
         THEN /\ pc' = "failed" /\ err' = "no closing quotation"
              /\ UNCHANGED <<srccomment, srcassign>>
         ELSE /\ \E order \in Orders(lex.toks \cap DOMAIN branchid_by_bvalvarname) :
                   LET res == Correlate(order, line, branchid_by_bvalvarname,
                                        fileid, fileline + 1, srccomment,
                                        srcassign)
                   IN  srccomment' = res[1] /\ srcassign' = res[2]
              /\ UNCHANGED <<pc, err>>
  /\ UNCHANGED <<content, srcfile, tree, branch, calls, fn, fileid,
                 tid_by_tvarname, branchid_by_bvalvarname>>

\* lines 235-236: commit, close; fill_db_tables goes on to the next path
Stage3End ==
  /\ pc = "stage3" /\ ~MoreLines
  /\ pc' = "idle"
  /\ UNCHANGED <<content, db, err, calls, fn, fileid, fileline,
                 tid_by_tvarname, branchid_by_bvalvarname>>

Next ==
  \/ \E f \in Files : OpenFile(f)
  \/ Stage1Line
  \/ Stage1End
  \/ Stage2Line
  \/ Stage2End
  \/ Stage3Line
  \/ Stage3End

Spec == Init /\ [][Next]_vars

(* ------------------------------------------------------------------------ *)
(* Properties                                                               *)
(* ------------------------------------------------------------------------ *)

\* the text of the file a stored row came from, and the line it names
ContentOf(fid) == content[srcfile[fid]]
LineOf(fid, n) == ContentOf(fid)[n]

\* the lines of text c whose creation statement binds variable v
Creations(c, v) ==
  {n \in 1..Len(c) : TreeOf[c[n]].hit /\ TreeOf[c[n]].tvarname = v}

Last(S) == CHOOSE n \in S : \A m \in S : m <= n

StageOneErrors == {"database inconsistency", "database error"}

\* C1: the tree table holds at most one row for each (treename, fileid).
C1_NaturalKeyUnique ==
  \A i, j \in 1..Len(tree) :
    (tree[i].treename = tree[j].treename /\ tree[i].fileid = tree[j].fileid)
      => i = j

\* every call so far read the same file: the current call, if not the first,
\* reprocesses a file that an earlier call processed to its end
SameFileAgain == calls >= 2 /\ Len(srcfile) = 1

\* C2: construct discovery run again over a file's unchanged content raises
\* neither stage-one error, and when it completes every creation statement
\* of the file has exactly one row for its (treename, fileid), identical to
\* the statement, which the variable map reuses.
C2_ConstructDiscoveryIdempotent ==
  SameFileAgain =>
    /\ err \notin StageOneErrors
    /\ (pc = "stage2" /\ fileline = 0) =>
         \A n \in 1..Len(content[fn]) :
           LET r == TreeOf[content[fn][n]]
               found == SelectTree(tree, r.treename, fileid)
           IN  r.hit =>
                 /\ Len(found) = 1
                 /\ tree[found[1]] =
                      TreeRow(r.treename, r.treetitle, r.tvarname, fileid, n)
                 /\ tid_by_tvarname[r.tvarname] \in
                      {SelectTree(tree, TreeOf[content[fn][m]].treename,
                                  fileid)[1] :
                         m \in Creations(content[fn], r.tvarname)}

\* C3: a field registered on a variable the file never creates is attached
\* to the one ghost row synthesized for that variable (name = variable,
\* empty title, line -1), and there is exactly one such row.
C3_GhostSynthesis ==
  \A k \in 1..Len(branch) :
    LET b == branch[k]
        v == BranchOf[LineOf(b.fileid, b.fileline)].tvarname
        ghost == TreeRow(v, NoText, v, b.fileid, -1)
    IN  Creations(ContentOf(b.fileid), v) = {} =>
          /\ tree[b.treeid] = ghost
          /\ Cardinality({i \in 1..Len(tree) : tree[i] = ghost}) = 1

Scenario == <<1, 2, 3, 4>>

\* the scenario file has been processed once, on the empty store
C4_ScenarioDone == pc = "idle" /\ calls = 1 /\ content[fn] = Scenario

C4_OneTreeOneField ==
  /\ Len(tree) = 1
  /\ tree[1].treename = Text(<<"m","y","t","r","e","e">>)
  /\ tree[1].treetitle = Text(<<"m","y"," ","t","i","t","l","e">>)
  /\ Len(branch) = 1
  /\ branch[1].treeid = 1
  /\ branch[1].branchname = Text(<<"b","1">>)
  /\ branch[1].bleafdef = Text(<<"x","/","F">>)
  /\ branch[1].bvalvarname = Text(<<"x">>)

\* C4 as stated: the scenario yields one construct, one field, one
\* CommentReference and one AssignmentReference, both on that field.
C4_ScenarioAsStated ==
  C4_ScenarioDone =>
    /\ C4_OneTreeOneField
    /\ Len(srccomment) = 1 /\ srccomment[1].branchid = 1
    /\ Len(srcassign) = 1 /\ srcassign[1].branchid = 1

\* C4 amended: the scenario yields one construct, one field, no
\* CommentReference (on line 3 the marker precedes x) and one
\* AssignmentReference, on that field, for line 4.
C4_ScenarioAmended ==
  C4_ScenarioDone =>
    /\ C4_OneTreeOneField
    /\ Len(srccomment) = 0
    /\ Len(srcassign) = 1 /\ srcassign[1].branchid = 1
    /\ srcassign[1].fileline = 4 /\ srcassign[1].text = Pool[4]

\* C5: every reference row names a field of the same file whose value
\* identifier is a token of the row's line for which the line classifies so.
C5_ReferenceOwnership ==
  /\ \A k \in 1..Len(srccomment) :
       LET r == srccomment[k]
           b == branch[r.branchid]
       IN  /\ b.fileid = r.fileid
           /\ b.bvalvarname \in TokensOf[LineOf(r.fileid, r.fileline)].toks
           /\ IsCommentFor(b.bvalvarname, r.text)
  /\ \A k \in 1..Len(srcassign) :
       LET r == srcassign[k]
           b == branch[r.branchid]
       IN  /\ b.fileid = r.fileid
           /\ b.bvalvarname \in TokensOf[LineOf(r.fileid, r.fileline)].toks
           /\ IsAssignFor(b.bvalvarname, r.text)

InCall == pc \in {"stage1", "stage2", "stage3"}

\* C6: every field's construct belongs to the field's own file, the maps of
\* a call hold only rows of the file being processed, and each call starts
\* with both maps empty.
C6_CrossFileIsolation ==
  /\ \A k \in 1..Len(branch) : tree[branch[k].treeid].fileid = branch[k].fileid
  /\ InCall =>
       \A v \in DOMAIN tid_by_tvarname :
         tree[tid_by_tvarname[v]].fileid = fileid
  /\ pc \in {"stage2", "stage3"} =>
       \A v \in DOMAIN branchid_by_bvalvarname :
         branch[branchid_by_bvalvarname[v]].fileid = fileid
  /\ (pc = "stage1" /\ fileline = 0) => tid_by_tvarname = EmptyMap
  /\ (pc = "stage2" /\ fileline = 0) => branchid_by_bvalvarname = EmptyMap

\* two files each hold a field registered on the same tree variable, the two
\* fields attached to different constructs
C6_Witness ==
  \E i, j \in 1..Len(branch) :
    /\ branch[i].fileid # branch[j].fileid
    /\ BranchOf[LineOf(branch[i].fileid, branch[i].fileline)].tvarname =
         BranchOf[LineOf(branch[j].fileid, branch[j].fileline)].tvarname
    /\ branch[i].treeid # branch[j].treeid

\* the second pass is about to read a registration of unrecognized syntax
AtUnrecognized ==
  /\ pc = "stage2" /\ MoreLines
  /\ BranchOf[CurLine].hit /\ BranchOf[CurLine].shape = 0

\* C7: reading a registration of unrecognized syntax raises without
\* inserting a row, and once raised no table changes and no call starts.
C7_UnrecognizedAborts ==
  [][ /\ AtUnrecognized =>
           (pc' = "failed" /\ err' = "unrecognized branch syntax" /\ db' = db)
      /\ pc = "failed" => (pc' = "failed" /\ db' = db /\ calls' = calls)
    ]_vars

\* raised on an unrecognized registration with lines and calls still to come
C7_Witness ==
  /\ pc = "failed" /\ err = "unrecognized branch syntax"
  /\ fileline < Len(content[fn]) /\ calls < MaxCalls
  /\ Len(branch) >= 1

\* C8: the only failures are the unrecognized-syntax, consistency-violation
\* and repository-shape errors.
C8_OnlyDocumentedFailures ==
  err \in {"none", "unrecognized branch syntax"} \cup StageOneErrors

\* v occurs in s at position i
OccursAt(v, s, i) ==
  i + Len(v) - 1 <= Len(s) /\ SubSeq(s, i, i + Len(v) - 1) = v

\* after some occurrence of v there is an "=" with no "=" next to it
AssignAfterAsStated(v, s) ==
  \E i \in 1..Len(s) :
    /\ OccursAt(v, s, i)
    /\ \E j \in (i + Len(v))..Len(s) :
         /\ s[j] = Ord("=")
         /\ s[j - 1] # Ord("=")
         /\ (j = Len(s) \/ s[j + 1] # Ord("="))

\* for some occurrence of v, the first "=" after it is followed by a
\* character that is not "="
AssignAfterAmended(v, s) ==
  \E i \in 1..Len(s) :
    /\ OccursAt(v, s, i)
    /\ \E j \in (i + Len(v))..(Len(s) - 1) :
         /\ s[j] = Ord("=")
         /\ s[j + 1] # Ord("=")
         /\ \A k \in (i + Len(v))..(j - 1) : s[k] # Ord("=")

\* the third pass reads one line and goes on
Stage3Reads == pc = "stage3" /\ pc' = "stage3" /\ fileline' = fileline + 1

\* the rows the step appended to srcassign are one row per identifier of want
AssignRowsFor(want) ==
  LET line == StripOf[CurLine]
      new  == SubSeq(srcassign', Len(srcassign) + 1, Len(srcassign'))
  IN  /\ SubSeq(srcassign', 1, Len(srcassign)) = srcassign
      /\ Len(new) = Cardinality(want)
      /\ \A v \in want :
           \E k \in 1..Len(new) :
             new[k] = RefRow(line, branchid_by_bvalvarname[v], fileid,
                             fileline + 1)

KnownOnLine == TokensOf[CurLine].toks \cap DOMAIN branchid_by_bvalvarname

\* C9 as stated: a known identifier of the line gets an AssignmentReference
\* iff an "=" not adjacent to another "=" follows an occurrence of it.
C9_AssignmentAsStated ==
  [][Stage3Reads =>
       AssignRowsFor({v \in KnownOnLine :
                        AssignAfterAsStated(v, StripOf[CurLine])})]_vars

\* C9 amended: a known identifier of the line gets an AssignmentReference
\* iff, for some occurrence of it, the first "=" after that occurrence is
\* immediately followed by a character other than "=".
C9_AssignmentAmended ==
  [][Stage3Reads =>
       AssignRowsFor({v \in KnownOnLine :
                        AssignAfterAmended(v, StripOf[CurLine])})]_vars

\* the third pass has read "if (x == 5) y = 3;" with x and y known
C9_Witness ==
  /\ pc = "stage3" /\ fileline >= 1
  /\ content[fn][fileline] = 10
  /\ {Text(<<"x">>), Text(<<"y">>)} \subseteq DOMAIN branchid_by_bvalvarname
  /\ \E k \in 1..Len(srcassign) :
       srcassign[k].fileline = fileline /\ srcassign[k].text = Pool[10]

\* C10: a field registered on a variable that the file binds in creation
\* statements is attached to the construct of the last of them, wherever the
\* registration stands.
C10_LastBindingWins ==
  \A k \in 1..Len(branch) :
    LET b  == branch[k]
        c  == ContentOf(b.fileid)
        v  == BranchOf[c[b.fileline]].tvarname
        cs == Creations(c, v)
    IN  cs # {} =>
          LET r == TreeOf[c[Last(cs)]]
          IN  tree[b.treeid] =
                TreeRow(r.treename, r.treetitle, v, b.fileid, Last(cs))

\* a registration on line 1 is attached to the construct that line 3, the
\* second creation statement binding the same variable, creates
C10_Witness ==
  \E k \in 1..Len(branch) :
    LET b == branch[k]
        c == ContentOf(b.fileid)
    IN  /\ b.fileline = 1
        /\ Cardinality(Creations(c, BranchOf[c[1]].tvarname)) = 2
        /\ tree[b.treeid].fileline = 3

====
